---- MODULE Spec2Model ----
(***************************************************************************)
(* Model of the outage monitor: the ChangeDetector (detector/              *)
(* change_detector.py), the DownDetectorScraper's fetch loop (scraper/     *)
(* downdetector_scraper.py) and the OutageMonitorScheduler's monitoring    *)
(* cycle (scheduler/scheduler.py).                                         *)
(*                                                                         *)
(* An OutageReport is a record [service_name, status, report_count,        *)
(* severity]; the fields the detector never reads (service_url, timestamp, *)
(* affected_regions, description) are left out.  A Python dict is a        *)
(* sequence of reports with pairwise distinct service_name, in insertion   *)
(* order.  Reports handed to detect_changes are values: the scheduler      *)
(* passes objects the scraper has just constructed.                        *)
(***************************************************************************)
EXTENDS Integers, Sequences, FiniteSets, TLC

VARIABLES
    previous_state,    \* ChangeDetector.previous_state
    prior_state,       \* previous_state as it was when the last detector operation began
    current_reports,   \* the argument of the last detector operation (detect_changes)
    changes,           \* the list the last detector operation returned (detect_changes)
    last_op,           \* the detector operation that ran last
    history,           \* per observed call: what was passed, what came back
    pc,                \* where _run_monitoring_cycle is suspended ("idle": not running)
    service_idx,       \* scrape_all_services: the position in services_list being fetched
    attempt,           \* scrape_all_services: the loop variable attempt
    reports,           \* scrape_all_services: the list reports
    attempts_made,     \* per position of services_list, the scrape_service calls of this cycle
    fetch_result,      \* per position of services_list, how its attempt loop ended this cycle
    cycle_start_state, \* previous_state as it was when this cycle started
    invoked,           \* the stages this cycle has entered after the fetch
    failed,            \* the stages of this cycle whose collaborator failed
    outcome,           \* how the last cycle left _run_monitoring_cycle ("running": it has not)
    article,           \* _run_monitoring_cycle: the local article
    metrics,           \* utils/metrics.py: the global SystemMetrics
    ai_enabled,        \* whether self.ai_generator is set
    cycles,            \* the monitoring cycles started
    is_running,        \* OutageMonitorScheduler.is_running
    phase,             \* per coroutine that runs a cycle, the await it is suspended at
    local_changes,     \* per coroutine, its local changes
    stages,            \* per coroutine, the stages its cycle has entered after the fetch
    manual_result,     \* what the last run_manual_cycle call returned
    stop_returned,     \* stop() has stopped the scheduler and start() was not called since
    began_after_stop,  \* a scheduled cycle began while stop_returned
    start_calls,       \* the calls of start() made
    jobs,              \* the ids of the jobs added to the APScheduler scheduler
    tasks_created,     \* the asyncio.create_task calls start() has made
    held,              \* the report object a caller of the detector keeps a reference to
    aliased,           \* previous_state's entry of held's service is that same object
    detected_by,       \* the coroutine whose detect_changes call ran last
    prev_notifier_failed, \* a notifier failed in the cycle before this one
    api_state          \* api/routes.py: _current_state, the mapping get_current_state returned

detectorVars == <<previous_state, prior_state, current_reports, changes, last_op>>

cycleVars == <<pc, service_idx, attempt, reports, attempts_made, fetch_result,
               cycle_start_state,
               invoked, failed, outcome, article, metrics, ai_enabled, cycles>>

startVars == <<start_calls, jobs, tasks_created>>

schedVars == <<is_running, phase, local_changes, stages, manual_result, stop_returned,
               began_after_stop, start_calls, jobs, tasks_created>>

traceVars == <<held, aliased, detected_by, prev_notifier_failed, api_state>>

vars == <<previous_state, prior_state, current_reports, changes, last_op, history,
          pc, service_idx, attempt, reports, attempts_made, fetch_result,
          cycle_start_state,
          invoked, failed, outcome, article, metrics, ai_enabled, cycles,
          is_running, phase, local_changes, stages, manual_result, stop_returned,
          began_after_stop, held, aliased, detected_by, prev_notifier_failed,
          api_state, start_calls, jobs, tasks_created>>

-----------------------------------------------------------------------------
(* models.py: the enumerations *)

UP == "up"

ISSUES == "issues"

DOWN == "down"

StatusEnum == {UP, ISSUES, DOWN}

LOW == "low"

MEDIUM == "medium"

HIGH == "high"

CRITICAL == "critical"

SeverityEnum == {LOW, MEDIUM, HIGH, CRITICAL}

NEW_OUTAGE == "new_outage"

STATUS_CHANGED == "status_changed"

SEVERITY_INCREASED == "severity_increased"

SEVERITY_DECREASED == "severity_decreased"

REPORT_COUNT_SPIKE == "report_count_spike"

OUTAGE_RESOLVED == "outage_resolved"

ChangeType == {NEW_OUTAGE, STATUS_CHANGED, SEVERITY_INCREASED,
               SEVERITY_DECREASED, REPORT_COUNT_SPIKE, OUTAGE_RESOLVED}

\* Python's None, for the optional old_status and old_severity of a ChangeEvent
None == "None"

\* Python's None where an OutageReport is optional (_create_change_event's old_report)
NoReport == [absent |-> TRUE]

OutageReport(name, status, count, severity) ==
    [service_name |-> name, status |-> status,
     report_count |-> count, severity |-> severity]

-----------------------------------------------------------------------------
(* detector/config.py and detector/change_detector.py *)

report_count_threshold == 1000

SEVERITY_ORDER == <<LOW, MEDIUM, HIGH, CRITICAL>>

\* list.index: the position of the first element equal to sev
SeverityIndex(sev) ==
    CHOOSE i \in 1..Len(SEVERITY_ORDER) :
        /\ SEVERITY_ORDER[i] = sev
        /\ \A j \in 1..(i - 1) : SEVERITY_ORDER[j] # sev

\* dict operations on the insertion-ordered representation
DictKeys(d) == {d[i].service_name : i \in 1..Len(d)}

DictGet(d, k) == d[CHOOSE i \in 1..Len(d) : d[i].service_name = k]

\* the comprehension keeping the first value of a key
DictPut_FirstWins(d, r) ==
    IF r.service_name \in DictKeys(d) THEN d ELSE Append(d, r)

\* d[r.service_name] = r: a key keeps the place of its first insertion
DictPut(d, r) ==
    IF r.service_name \in DictKeys(d)
    THEN [i \in 1..Len(d) |-> IF d[i].service_name = r.service_name THEN r ELSE d[i]]
    ELSE Append(d, r)

RECURSIVE DictFromReports(_)
\* {report.service_name: report for report in current_reports}
DictFromReports(batch) ==
    IF batch = <<>> THEN <<>>
    ELSE DictPut(DictFromReports(SubSeq(batch, 1, Len(batch) - 1)),
                 batch[Len(batch)])

\* an event built without looking at the old report
CreateChangeEvent_OldOmitted(change_type, service_name, old_report, new_report) ==
    [change_type      |-> change_type,
     service_name     |-> service_name,
     old_status       |-> None,
     new_status       |-> new_report.status,
     old_report_count |-> 0,
     new_report_count |-> new_report.report_count,
     old_severity     |-> None,
     new_severity     |-> new_report.severity]

\* _create_change_event
CreateChangeEvent(change_type, service_name, old_report, new_report) ==
    [change_type      |-> change_type,
     service_name     |-> service_name,
     old_status       |-> IF old_report = NoReport THEN None ELSE old_report.status,
     new_status       |-> new_report.status,
     old_report_count |-> IF old_report = NoReport THEN 0 ELSE old_report.report_count,
     new_report_count |-> new_report.report_count,
     old_severity     |-> IF old_report = NoReport THEN None ELSE old_report.severity,
     new_severity     |-> new_report.severity]

\* the status rule with the resolved branch lost: every transition is STATUS_CHANGED
StatusChanges_AlwaysChanged(old_report, new_report) ==
    IF old_report.status # new_report.status
    THEN <<CreateChangeEvent(STATUS_CHANGED, new_report.service_name,
                             old_report, new_report)>>
    ELSE <<>>

\* the status rule reporting only the return to UP
StatusChanges_ResolvedOnly(old_report, new_report) ==
    IF old_report.status # new_report.status /\ new_report.status = UP
    THEN <<CreateChangeEvent(OUTAGE_RESOLVED, new_report.service_name,
                             old_report, new_report)>>
    ELSE <<>>

\* _compare_reports, "# Status change"
StatusChanges(old_report, new_report) ==
    IF old_report.status # new_report.status
    THEN <<CreateChangeEvent(
              IF new_report.status = UP THEN OUTAGE_RESOLVED ELSE STATUS_CHANGED,
              new_report.service_name, old_report, new_report)>>
    ELSE <<>>

\* the severity rule without its test of the new status
SeverityChanges_AnyStatus(old_report, new_report) ==
    LET old_severity_idx == SeverityIndex(old_report.severity)
        new_severity_idx == SeverityIndex(new_report.severity)
    IN  IF new_severity_idx > old_severity_idx
        THEN <<CreateChangeEvent(SEVERITY_INCREASED, new_report.service_name,
                                 old_report, new_report)>>
        ELSE IF new_severity_idx < old_severity_idx
        THEN <<CreateChangeEvent(SEVERITY_DECREASED, new_report.service_name,
                                 old_report, new_report)>>
        ELSE <<>>

\* _compare_reports, "# Severity change (only if status hasn't changed to UP)"
SeverityChanges(old_report, new_report) ==
    IF new_report.status # UP
    THEN LET old_severity_idx == SeverityIndex(old_report.severity)
             new_severity_idx == SeverityIndex(new_report.severity)
         IN  IF new_severity_idx > old_severity_idx
             THEN <<CreateChangeEvent(SEVERITY_INCREASED, new_report.service_name,
                                      old_report, new_report)>>
             ELSE IF new_severity_idx < old_severity_idx
             THEN <<CreateChangeEvent(SEVERITY_DECREASED, new_report.service_name,
                                      old_report, new_report)>>
             ELSE <<>>
    ELSE <<>>

\* the spike rule testing the new count instead of the increase
SpikeChanges_Absolute(old_report, new_report) ==
    IF new_report.report_count >= report_count_threshold
    THEN <<CreateChangeEvent(REPORT_COUNT_SPIKE, new_report.service_name,
                             old_report, new_report)>>
    ELSE <<>>

\* the spike rule with > for >=
SpikeChanges_Strict(old_report, new_report) ==
    LET count_increase == new_report.report_count - old_report.report_count
    IN  IF count_increase > report_count_threshold
        THEN <<CreateChangeEvent(REPORT_COUNT_SPIKE, new_report.service_name,
                                 old_report, new_report)>>
        ELSE <<>>

\* _compare_reports, "# Report count spike"
SpikeChanges(old_report, new_report) ==
    LET count_increase == new_report.report_count - old_report.report_count
    IN  IF count_increase >= report_count_threshold
        THEN <<CreateChangeEvent(REPORT_COUNT_SPIKE, new_report.service_name,
                                 old_report, new_report)>>
        ELSE <<>>

CompareReports(old_report, new_report) ==
    StatusChanges(old_report, new_report)
        \o SeverityChanges(old_report, new_report)
        \o SpikeChanges(old_report, new_report)

\* the first loop's body without the status test on a new service
CurrentServiceChanges_NoUpCheck(state, report) ==
    IF report.service_name \notin DictKeys(state)
    THEN <<CreateChangeEvent(NEW_OUTAGE, report.service_name, NoReport, report)>>
    ELSE CompareReports(DictGet(state, report.service_name), report)

\* the first loop's body running the spike rule on a new service against a count of 0
CurrentServiceChanges_SpikeOnNew(state, report) ==
    IF report.service_name \notin DictKeys(state)
    THEN (IF report.status # UP
          THEN <<CreateChangeEvent(NEW_OUTAGE, report.service_name, NoReport, report)>>
          ELSE <<>>)
         \o (IF report.report_count >= report_count_threshold
             THEN <<CreateChangeEvent(REPORT_COUNT_SPIKE, report.service_name,
                                      NoReport, report)>>
             ELSE <<>>)
    ELSE CompareReports(DictGet(state, report.service_name), report)

\* detect_changes, the body of the first loop for one item of current_services
CurrentServiceChanges(state, report) ==
    IF report.service_name \notin DictKeys(state)
    THEN IF report.status # UP
         THEN <<CreateChangeEvent(NEW_OUTAGE, report.service_name, NoReport, report)>>
         ELSE <<>>
    ELSE CompareReports(DictGet(state, report.service_name), report)

\* the second loop's body without the status test on the old report
ResolvedChanges_AnyStatus(current_services, old_report) ==
    IF old_report.service_name \notin DictKeys(current_services)
    THEN <<CreateChangeEvent(OUTAGE_RESOLVED, old_report.service_name, old_report,
               OutageReport(old_report.service_name, UP, 0, LOW))>>
    ELSE <<>>

\* detect_changes, the body of the second loop for one item of previous_state
ResolvedChanges(current_services, old_report) ==
    IF old_report.service_name \notin DictKeys(current_services)
    THEN IF old_report.status # UP
         THEN <<CreateChangeEvent(OUTAGE_RESOLVED, old_report.service_name, old_report,
                    OutageReport(old_report.service_name, UP, 0, LOW))>>
         ELSE <<>>
    ELSE <<>>

RECURSIVE CurrentLoop_StopsAtFirst(_, _, _)
\* the first loop leaving at the first service that has events
CurrentLoop_StopsAtFirst(state, current_services, i) ==
    IF i > Len(current_services) THEN <<>>
    ELSE LET found == CurrentServiceChanges(state, current_services[i])
         IN  IF found # <<>> THEN found
             ELSE CurrentLoop_StopsAtFirst(state, current_services, i + 1)

RECURSIVE CurrentLoop(_, _, _)
\* for service_name, report in current_services.items(): from item i on
CurrentLoop(state, current_services, i) ==
    IF i > Len(current_services) THEN <<>>
    ELSE CurrentServiceChanges(state, current_services[i])
             \o CurrentLoop(state, current_services, i + 1)

RECURSIVE ResolvedLoop(_, _, _)
\* for service_name, old_report in self.previous_state.items(): from item i on
ResolvedLoop(state, current_services, i) ==
    IF i > Len(state) THEN <<>>
    ELSE ResolvedChanges(current_services, state[i])
             \o ResolvedLoop(state, current_services, i + 1)

\* detect_changes with its two loops exchanged
DetectedChanges_ResolvedFirst(state, batch) ==
    LET current_services == DictFromReports(batch)
    IN  ResolvedLoop(state, current_services, 1)
            \o CurrentLoop(state, current_services, 1)

\* the list detect_changes returns
DetectedChanges(state, batch) ==
    LET current_services == DictFromReports(batch)
    IN  CurrentLoop(state, current_services, 1)
            \o ResolvedLoop(state, current_services, 1)

\* _create_change_event raises (pydantic ValidationError): new_severity is a required
\* SeverityEnum, old_severity is Optional
CreateRaises(new_report) == new_report.severity \notin SeverityEnum

\* _compare_reports raises: an event is built for a new report without a valid
\* severity, or SEVERITY_ORDER.index is given a value that is not in the list
CompareRaises(old_report, new_report) ==
    \/ old_report.status # new_report.status /\ CreateRaises(new_report)
    \/ /\ new_report.status # UP
       /\ \/ old_report.severity \notin SeverityEnum
          \/ new_report.severity \notin SeverityEnum
    \/ /\ new_report.report_count - old_report.report_count >= report_count_threshold
       /\ CreateRaises(new_report)

\* the body of the first loop raises for one item of current_services
CurrentServiceRaises(state, report) ==
    IF report.service_name \notin DictKeys(state)
    THEN report.status # UP /\ CreateRaises(report)
    ELSE CompareRaises(DictGet(state, report.service_name), report)

\* detect_changes raises somewhere in its first loop (the second loop builds its
\* events on a report it constructs itself)
DetectRaises(state, batch) ==
    LET current_services == DictFromReports(batch)
    IN  \E i \in 1..Len(current_services) :
            CurrentServiceRaises(state, current_services[i])

\* the state left by a call that raised, had the items before the failing one been
\* written as they were compared
StateAfterRaise_Partial(state, batch) ==
    LET current_services == DictFromReports(batch)
        first_bad == CHOOSE i \in 1..Len(current_services) :
                         /\ CurrentServiceRaises(state, current_services[i])
                         /\ \A j \in 1..(i - 1) :
                                ~CurrentServiceRaises(state, current_services[j])
    IN  SubSeq(current_services, 1, first_bad - 1)

\* the state left by a detect_changes call that raised: the assignment of line 83
\* is the last statement that touches previous_state, and it was not reached
StateAfterRaise(state, batch) == state

\* detect_changes without its state update
CommittedState_Kept(state, batch) == state

RECURSIVE CommittedState_Merged(_, _)
\* the state update as self.previous_state.update(current_services): the entries of
\* services missing from the batch stay
CommittedState_Merged(state, batch) ==
    IF batch = <<>> THEN state
    ELSE DictPut(CommittedState_Merged(state, SubSeq(batch, 1, Len(batch) - 1)),
                 batch[Len(batch)])

\* "# Update state": self.previous_state = current_services.copy()
CommittedState(state, batch) == DictFromReports(batch)

-----------------------------------------------------------------------------------------------------------------------------------------------------
(* The detector driven directly, as its callers and its tests drive it *)

\* service names as the scraper writes them (service_name.title())
Services == {"Google", "Facebook"}

Counts == {0, 1, 1000}

\* every report of one service over the enumerations and Counts
ReportsOf(name) ==
    {OutageReport(name, s, c, v) : s \in StatusEnum, c \in Counts, v \in SeverityEnum}

\* a second service that comes and goes beside the first, healthy or in outage
ProbeReportsOf(name) ==
    {OutageReport(name, UP, 0, LOW), OutageReport(name, DOWN, 1000, HIGH)}

\* a batch holds at most one report per service, in the order of the configuration
Batches ==
    {<<>>}
        \cup {<<g>> : g \in ReportsOf("Google")}
        \cup {<<f>> : f \in ProbeReportsOf("Facebook")}
        \cup {<<g, f>> : g \in ReportsOf("Google"), f \in ProbeReportsOf("Facebook")}

\* scraper/config.py
retry_attempts == 3

\* ScraperConfig.services_list
services_list == <<"google", "facebook">>

\* the coroutines that run a cycle: the task start() creates, the instance of the
\* interval job (APScheduler runs at most one, max_instances being left at 1), and
\* a run_manual_cycle call
Kinds == {"task", "job", "manual"}

\* no run_manual_cycle call has returned
NotReturned == [returned |-> FALSE]

\* SystemMetrics()
NewMetrics ==
    [total_scrapes |-> 0, successful_scrapes |-> 0, failed_scrapes |-> 0,
     total_notifications_sent |-> 0, services_monitored |-> 0, current_outages |-> 0]

\* ChangeDetector.__init__
InitDetector ==
    /\ previous_state = <<>>
    /\ prior_state = <<>>
    /\ current_reports = <<>>
    /\ changes = <<>>
    /\ last_op = "init"
    /\ history = <<>>

\* OutageMonitorScheduler.__init__, no cycle running
InitScheduler ==
    /\ pc = "idle"
    /\ service_idx = 1
    /\ attempt = 0
    /\ reports = <<>>
    /\ attempts_made = [i \in 1..Len(services_list) |-> 0]
    /\ fetch_result = [i \in 1..Len(services_list) |-> "pending"]
    /\ cycle_start_state = <<>>
    /\ invoked = {}
    /\ failed = {}
    /\ outcome = "none"
    /\ article = None
    /\ metrics = NewMetrics
    /\ cycles = 0
    /\ is_running = FALSE
    /\ phase = [k \in Kinds |-> "off"]
    /\ local_changes = [k \in Kinds |-> <<>>]
    /\ stages = [k \in Kinds |-> {}]
    /\ manual_result = NotReturned
    /\ stop_returned = FALSE
    /\ began_after_stop = FALSE
    /\ start_calls = 0
    /\ jobs = {}
    /\ tasks_created = 0
    /\ held = NoReport
    /\ aliased = FALSE
    /\ detected_by = "nobody"
    /\ prev_notifier_failed = FALSE
    /\ api_state = <<>>

\* a detector of its own, in a process without AI key
Init ==
    /\ InitDetector
    /\ InitScheduler
    /\ ai_enabled = FALSE

\* ChangeDetector.detect_changes(batch): the detector's variables. When the call
\* raises, nothing is returned and line 83 has not been reached.
DetectCore(batch) ==
    IF DetectRaises(previous_state, batch)
    THEN /\ changes' = <<>>
         /\ previous_state' = StateAfterRaise(previous_state, batch)
         /\ prior_state' = previous_state
         /\ current_reports' = batch
         /\ last_op' = "detect_changes raised"
    ELSE /\ changes' = DetectedChanges(previous_state, batch)
         /\ previous_state' = CommittedState(previous_state, batch)
         /\ prior_state' = previous_state
         /\ current_reports' = batch
         /\ last_op' = "detect_changes"

\* ChangeDetector.detect_changes(batch)
DetectChanges(batch) ==
    /\ DetectCore(batch)
    /\ UNCHANGED history
    /\ UNCHANGED cycleVars
    /\ UNCHANGED schedVars
    /\ UNCHANGED traceVars

\* reset_state dropping only the entries of services in outage
ResetState_KeepsHealthy ==
    /\ previous_state' = SelectSeq(previous_state, LAMBDA r : r.status = UP)
    /\ prior_state' = previous_state
    /\ current_reports' = <<>>
    /\ changes' = <<>>
    /\ last_op' = "reset_state"
    /\ UNCHANGED history
    /\ UNCHANGED cycleVars
    /\ UNCHANGED schedVars
    /\ UNCHANGED traceVars

\* ChangeDetector.reset_state()
ResetState ==
    /\ previous_state' = <<>>
    /\ prior_state' = previous_state
    /\ current_reports' = <<>>
    /\ changes' = <<>>
    /\ last_op' = "reset_state"
    /\ UNCHANGED history
    /\ UNCHANGED cycleVars
    /\ UNCHANGED schedVars
    /\ UNCHANGED traceVars

Detect == \E batch \in Batches : DetectChanges(batch)

Next == Detect \/ ResetState

Spec == Init /\ [][Next]_vars

-----------------------------------------------------------------------------
(* The monitoring cycle: scheduler/scheduler.py and the scraper's fetch loop.     *)
(* A step runs from one suspension of the coroutine (an await on the network, on  *)
(* the retry delay, on a collaborator) to the next.                               *)

MaxCycles == 2

\* str.title() on the configured names (_parse_service_page, service_name.title())
Title(service) ==
    CASE service = "google" -> "Google"
      [] service = "facebook" -> "Facebook"

\* the thresholds read as inclusive lower limits
CalculateSeverity_Inclusive(report_count) ==
    IF report_count >= 10000 THEN CRITICAL
    ELSE IF report_count >= 5000 THEN HIGH
    ELSE IF report_count >= 1000 THEN MEDIUM
    ELSE LOW

\* DownDetectorScraper._calculate_severity
CalculateSeverity(report_count) ==
    IF report_count > 10000 THEN CRITICAL
    ELSE IF report_count > 5000 THEN HIGH
    ELSE IF report_count > 1000 THEN MEDIUM
    ELSE LOW

\* report counts a page can show
ScrapedCounts == {0, 5001}

\* the reports _parse_service_page can build for a service
ScrapedReports(service) ==
    {OutageReport(Title(service), s, c, CalculateSeverity(c)) :
        s \in StatusEnum, c \in ScrapedCounts}

\* SystemMetrics.increment_scrapes
IncrementScrapes(m, success) ==
    [m EXCEPT !.total_scrapes = @ + 1,
              !.successful_scrapes = IF success THEN @ + 1 ELSE @,
              !.failed_scrapes = IF success THEN @ ELSE @ + 1]

\* sum(1 for r in reports if r.status.value != "up")
Outages(rs) == Len(SelectSeq(rs, LAMBDA r : r.status # UP))

\* _run_monitoring_cycle is called (the interval job, or start()'s task) and runs
\* to the first await of scrape_service
StartCycle ==
    /\ pc = "idle"
    /\ cycles < MaxCycles
    /\ cycles' = cycles + 1
    /\ pc' = "fetch"
    /\ service_idx' = 1
    /\ attempt' = 0
    /\ reports' = <<>>
    /\ attempts_made' = [i \in 1..Len(services_list) |-> 0]
    /\ fetch_result' = [i \in 1..Len(services_list) |-> "pending"]
    /\ cycle_start_state' = previous_state
    /\ invoked' = {}
    /\ failed' = {}
    /\ outcome' = "running"
    /\ article' = None
    /\ prior_state' = previous_state
    /\ current_reports' = <<>>
    /\ changes' = <<>>
    /\ last_op' = "cycle_start"
    /\ prev_notifier_failed' = (failed \cap {"email", "ws"} # {})
    /\ UNCHANGED <<previous_state, history, metrics, ai_enabled>>
    /\ UNCHANGED schedVars
    /\ UNCHANGED <<held, aliased, detected_by, api_state>>

\* the cycle without its "if not changes: return"
DetectAndNotify_AlwaysNotifies(rs, scraped) ==
    LET counted == [scraped EXCEPT !.current_outages = Outages(rs)]
    IN  /\ DetectCore(rs)
        /\ IF DetectRaises(previous_state, rs)
           THEN /\ metrics' = IncrementScrapes(counted, FALSE)
                /\ pc' = "idle"
                /\ outcome' = "error"
                /\ invoked' = {"detect"}
           ELSE /\ metrics' = counted
                /\ pc' = IF ai_enabled THEN "enrich" ELSE "email"
                /\ outcome' = "running"
                /\ invoked' = IF ai_enabled THEN {"detect", "enrich"}
                              ELSE {"detect", "email"}

\* _run_monitoring_cycle from "# Count current outages" to the next await, or to
\* its return: detect_changes, then the first call of the notify stage
DetectAndNotify(rs, scraped) ==
    LET counted == [scraped EXCEPT !.current_outages = Outages(rs)]
    IN  /\ DetectCore(rs)
        /\ IF DetectRaises(previous_state, rs)
           THEN /\ metrics' = IncrementScrapes(counted, FALSE)
                /\ pc' = "idle"
                /\ outcome' = "error"
                /\ invoked' = {"detect"}
           ELSE /\ metrics' = counted
                /\ pc' = IF changes' = <<>> THEN "idle"
                         ELSE IF ai_enabled THEN "enrich" ELSE "email"
                /\ outcome' = IF changes' = <<>> THEN "no changes" ELSE "running"
                /\ invoked' = IF changes' = <<>> THEN {"detect"}
                              ELSE IF ai_enabled THEN {"detect", "enrich"}
                              ELSE {"detect", "email"}

\* the cycle without its "if not reports: return"
AfterScrape_NoShortCircuit(rs) ==
    DetectAndNotify(rs, [IncrementScrapes(metrics, Len(rs) > 0)
                             EXCEPT !.services_monitored = Len(rs)])

\* _run_monitoring_cycle from the return of scrape_all_services with rs to the next
\* await, or to its return: the metrics, detect_changes, the first notifier call
AfterScrape(rs) ==
    LET scraped == [IncrementScrapes(metrics, Len(rs) > 0)
                        EXCEPT !.services_monitored = Len(rs)]
    IN  IF rs = <<>>
        THEN /\ metrics' = scraped
             /\ pc' = "idle"
             /\ outcome' = "no reports"
             /\ UNCHANGED <<detectorVars, invoked>>
        ELSE DetectAndNotify(rs, scraped)

\* the fetch loop handing every intermediate list to the rest of the cycle
LeaveService_DetectEarly(rs) ==
    /\ reports' = rs
    /\ attempt' = 0
    /\ service_idx' = service_idx + 1
    /\ AfterScrape(rs)

\* scrape_all_services leaves the attempt loop of a service with the list rs:
\* the next service is fetched, or the list is returned
LeaveService(rs) ==
    /\ reports' = rs
    /\ attempt' = 0
    /\ service_idx' = service_idx + 1
    /\ IF service_idx = Len(services_list)
       THEN AfterScrape(rs)
       ELSE /\ pc' = "fetch"
            /\ UNCHANGED <<detectorVars, invoked, outcome, metrics>>

\* scrape_service returns a report: it is appended, break
FetchReturnsReport ==
    /\ pc = "fetch"
    /\ \E report \in ScrapedReports(services_list[service_idx]) :
           LeaveService(Append(reports, report))
    /\ attempts_made' = [attempts_made EXCEPT ![service_idx] = @ + 1]
    /\ fetch_result' = [fetch_result EXCEPT ![service_idx] = "report"]
    /\ UNCHANGED <<history, cycle_start_state, failed, article, ai_enabled, cycles>>
    /\ UNCHANGED schedVars
    /\ UNCHANGED traceVars

\* scrape_service returns None (it caught httpx.HTTPStatusError or
\* httpx.RequestError, or _parse_service_page caught an exception): break
FetchReturnsNone ==
    /\ pc = "fetch"
    /\ attempts_made' = [attempts_made EXCEPT ![service_idx] = @ + 1]
    /\ fetch_result' = [fetch_result EXCEPT ![service_idx] = "none"]
    /\ LeaveService(reports)
    /\ UNCHANGED <<history, cycle_start_state, failed, article, ai_enabled, cycles>>
    /\ UNCHANGED schedVars
    /\ UNCHANGED traceVars

\* the last failed attempt raising out of scrape_all_services into the cycle's handler
FetchRaises_Fatal ==
    /\ pc = "fetch"
    /\ attempts_made' = [attempts_made EXCEPT ![service_idx] = @ + 1]
    /\ IF attempt < retry_attempts - 1
       THEN /\ pc' = "sleep"
            /\ UNCHANGED <<service_idx, attempt, reports, fetch_result,
                           detectorVars, invoked, outcome, metrics>>
       ELSE /\ fetch_result' = [fetch_result EXCEPT ![service_idx] = "raised"]
            /\ pc' = "idle"
            /\ outcome' = "error"
            /\ metrics' = IncrementScrapes(metrics, FALSE)
            /\ UNCHANGED <<service_idx, attempt, reports, detectorVars, invoked>>
    /\ UNCHANGED <<history, cycle_start_state, failed, article, ai_enabled, cycles>>
    /\ UNCHANGED schedVars
    /\ UNCHANGED traceVars

\* the except branch sleeping after every failed attempt and trying again
FetchRaises_AlwaysSleeps ==
    /\ pc = "fetch"
    /\ attempts_made' = [attempts_made EXCEPT ![service_idx] = @ + 1]
    /\ pc' = "sleep"
    /\ UNCHANGED <<service_idx, attempt, reports, fetch_result,
                   detectorVars, invoked, outcome, metrics>>
    /\ UNCHANGED <<history, cycle_start_state, failed, article, ai_enabled, cycles>>
    /\ UNCHANGED schedVars
    /\ UNCHANGED traceVars

\* scrape_service raises (an exception it does not catch): sleep and retry while
\* attempt < retry_attempts - 1, else log the failure and go on
FetchRaises ==
    /\ pc = "fetch"
    /\ attempts_made' = [attempts_made EXCEPT ![service_idx] = @ + 1]
    /\ IF attempt < retry_attempts - 1
       THEN /\ pc' = "sleep"
            /\ UNCHANGED <<service_idx, attempt, reports, fetch_result,
                           detectorVars, invoked, outcome, metrics>>
       ELSE /\ fetch_result' = [fetch_result EXCEPT ![service_idx] = "raised"]
            /\ LeaveService(reports)
    /\ UNCHANGED <<history, cycle_start_state, failed, article, ai_enabled, cycles>>
    /\ UNCHANGED schedVars
    /\ UNCHANGED traceVars

\* asyncio.sleep(retry_delay_seconds) returns: the next attempt is made
RetryDelayElapsed ==
    /\ pc = "sleep"
    /\ pc' = "fetch"
    /\ attempt' = attempt + 1
    /\ UNCHANGED <<detectorVars, history, service_idx, reports, attempts_made, fetch_result,
                   cycle_start_state, invoked, failed, outcome, article, metrics,
                   ai_enabled, cycles>>
    /\ UNCHANGED schedVars
    /\ UNCHANGED traceVars

\* generate_article letting the failure of the AI call out into the cycle's handler
ArticleReturned_Propagates ==
    /\ pc = "enrich"
    /\ \E result \in {"article", "nothing", "error"} :
           /\ article' = IF result = "article" THEN "article" ELSE None
           /\ failed' = IF result = "error" THEN failed \cup {"enrich"} ELSE failed
           /\ pc' = IF result = "error" THEN "idle" ELSE "email"
           /\ outcome' = IF result = "error" THEN "error" ELSE outcome
           /\ invoked' = IF result = "error" THEN invoked ELSE invoked \cup {"email"}
           /\ metrics' = IF result = "error" THEN IncrementScrapes(metrics, FALSE)
                         ELSE metrics
    /\ UNCHANGED <<detectorVars, history, service_idx, attempt, reports, attempts_made,
                   fetch_result, cycle_start_state, ai_enabled, cycles>>
    /\ UNCHANGED schedVars
    /\ UNCHANGED traceVars

\* generate_article returns: a text, or None (no client, nothing generated, or a
\* failure of the AI call, which it catches); send_change_notification is called
ArticleReturned ==
    /\ pc = "enrich"
    /\ \E result \in {"article", "nothing", "error"} :
           /\ article' = IF result = "article" THEN "article" ELSE None
           /\ failed' = IF result = "error" THEN failed \cup {"enrich"} ELSE failed
    /\ pc' = "email"
    /\ invoked' = invoked \cup {"email"}
    /\ UNCHANGED <<detectorVars, history, service_idx, attempt, reports, attempts_made,
                   fetch_result, cycle_start_state, outcome, metrics, ai_enabled, cycles>>
    /\ UNCHANGED schedVars
    /\ UNCHANGED traceVars

\* send_change_notification returns True or False (it catches every failure of
\* _send_service_notification; the cycle drops the bool); increment_notifications;
\* broadcast_changes is called
EmailReturned ==
    /\ pc = "email"
    /\ \E sent \in BOOLEAN :
           failed' = IF sent THEN failed ELSE failed \cup {"email"}
    /\ metrics' = [metrics EXCEPT !.total_notifications_sent = @ + Len(changes)]
    /\ pc' = "ws"
    /\ invoked' = invoked \cup {"ws"}
    /\ UNCHANGED <<detectorVars, history, service_idx, attempt, reports, attempts_made,
                   fetch_result, cycle_start_state, outcome, article, ai_enabled, cycles>>
    /\ UNCHANGED schedVars
    /\ UNCHANGED traceVars

\* broadcast_changes returns: the cycle completed
BroadcastReturned ==
    /\ pc = "ws"
    /\ pc' = "idle"
    /\ outcome' = "completed"
    /\ UNCHANGED <<detectorVars, history, service_idx, attempt, reports, attempts_made,
                   fetch_result, cycle_start_state, invoked, failed, article, metrics,
                   ai_enabled, cycles>>
    /\ UNCHANGED schedVars
    /\ UNCHANGED traceVars

\* the cycle's handler undoing the commit of the detect stage
BroadcastRaised_RollsBack ==
    /\ pc = "ws"
    /\ pc' = "idle"
    /\ failed' = failed \cup {"ws"}
    /\ outcome' = "error"
    /\ metrics' = IncrementScrapes(metrics, FALSE)
    /\ previous_state' = cycle_start_state
    /\ UNCHANGED <<prior_state, current_reports, changes, last_op, history, service_idx,
                   attempt, reports, attempts_made, fetch_result, cycle_start_state,
                   invoked, article, ai_enabled, cycles>>
    /\ UNCHANGED schedVars
    /\ UNCHANGED traceVars

\* broadcast_changes raises (sio.emit): except Exception, increment_scrapes(success=False)
BroadcastRaised ==
    /\ pc = "ws"
    /\ pc' = "idle"
    /\ failed' = failed \cup {"ws"}
    /\ outcome' = "error"
    /\ metrics' = IncrementScrapes(metrics, FALSE)
    /\ UNCHANGED <<detectorVars, history, service_idx, attempt, reports, attempts_made,
                   fetch_result, cycle_start_state, invoked, article, ai_enabled, cycles>>
    /\ UNCHANGED schedVars
    /\ UNCHANGED traceVars

NextCycle ==
    \/ StartCycle
    \/ FetchReturnsReport
    \/ FetchReturnsNone
    \/ FetchRaises
    \/ RetryDelayElapsed
    \/ ArticleReturned
    \/ EmailReturned
    \/ BroadcastReturned
    \/ BroadcastRaised

\* the process of main.py, with or without an AI key
InitCycle ==
    /\ InitDetector
    /\ InitScheduler
    /\ ai_enabled \in BOOLEAN

SpecCycle == InitCycle /\ [][NextCycle]_vars

-----------------------------------------------------------------------------
(* The scheduler as its owner drives it: start(), stop(), the interval job and      *)
(* run_manual_cycle, each cycle a coroutine of its own on the one event loop.  The *)
(* fetch stage is one step here: scrape_all_services returns a list.               *)

MaxRuns == 3

\* the calls of start() followed
MaxStartCalls == 3

\* the coroutines that run _run_monitoring_cycle
Scheduled == {"task", "job"}

\* the variables of the single cycle followed await by await in SpecCycle
cycleLocals == <<pc, service_idx, attempt, reports, attempts_made, fetch_result,
                 cycle_start_state, invoked, failed, outcome, article>>

\* a report built without validation (OutageReport.model_construct, or an attribute
\* assigned after construction): its severity is not a SeverityEnum
UnvalidatedReport == OutageReport("Facebook", DOWN, 5001, None)

\* the lists scrape_all_services hands to a cycle
ReturnedBatches ==
    {<<>>}
        \cup {<<g>> : g \in {OutageReport("Google", UP, 0, LOW),
                             OutageReport("Google", DOWN, 5001, HIGH)}}
        \cup {<<g, UnvalidatedReport>> :
                  g \in {OutageReport("Google", UP, 0, LOW),
                         OutageReport("Google", DOWN, 5001, HIGH)}}

\* start(): the interval job is added, the scheduler started, and a task for an
\* immediate cycle created; one such task is followed at a time
Start ==
    /\ ~is_running
    /\ phase["task"] = "off"
    /\ start_calls < MaxStartCalls
    /\ start_calls' = start_calls + 1
    /\ jobs' = jobs \cup {"outage_monitor"}
    /\ is_running' = TRUE
    /\ tasks_created' = tasks_created + 1
    /\ phase' = [phase EXCEPT !["task"] = "created"]
    /\ stop_returned' = FALSE
    /\ UNCHANGED <<detectorVars, history, cycleLocals, traceVars, metrics, ai_enabled, cycles,
                   local_changes, stages, manual_result, began_after_stop>>

\* start() going on although the scheduler is running
StartOnRunning_Restarts ==
    /\ is_running
    /\ start_calls < MaxStartCalls
    /\ start_calls' = start_calls + 1
    /\ jobs' = jobs \cup {"outage_monitor"}
    /\ tasks_created' = tasks_created + 1
    /\ UNCHANGED <<detectorVars, history, cycleLocals, traceVars, metrics, ai_enabled, cycles,
                   is_running, phase, local_changes, stages, manual_result, stop_returned,
                   began_after_stop>>

\* start() while is_running: the warning is logged and the call returns
StartOnRunning ==
    /\ is_running
    /\ start_calls < MaxStartCalls
    /\ start_calls' = start_calls + 1
    /\ UNCHANGED <<detectorVars, history, cycleLocals, traceVars, metrics, ai_enabled, cycles,
                   is_running, phase, local_changes, stages, manual_result, stop_returned,
                   began_after_stop, jobs, tasks_created>>

\* stop(): scheduler.shutdown(wait=False), is_running = False
Stop ==
    /\ is_running
    /\ is_running' = FALSE
    /\ stop_returned' = TRUE
    /\ UNCHANGED <<detectorVars, history, cycleLocals, traceVars, startVars, metrics, ai_enabled, cycles,
                   phase, local_changes, stages, manual_result, began_after_stop>>

\* a coroutine enters its cycle and runs to the await of scrape_all_services
BeginCycle(k) ==
    /\ cycles < MaxRuns
    /\ cycles' = cycles + 1
    /\ phase' = [phase EXCEPT ![k] = "scrape"]
    /\ local_changes' = [local_changes EXCEPT ![k] = <<>>]
    /\ stages' = [stages EXCEPT ![k] = {}]
    /\ UNCHANGED <<detectorVars, history, cycleLocals, traceVars, startVars, metrics, ai_enabled,
                   is_running, stop_returned>>

\* the event loop runs the task created by start()
TaskBegins ==
    /\ phase["task"] = "created"
    /\ BeginCycle("task")
    /\ began_after_stop' = (began_after_stop \/ stop_returned)
    /\ UNCHANGED manual_result

\* the interval trigger fires on the running scheduler and no instance of the job
\* is still running
IntervalTick ==
    /\ is_running
    /\ phase["job"] = "off"
    /\ BeginCycle("job")
    /\ began_after_stop' = (began_after_stop \/ stop_returned)
    /\ UNCHANGED manual_result

\* run_manual_cycle is called
ManualCalled ==
    /\ phase["manual"] = "off"
    /\ BeginCycle("manual")
    /\ manual_result' = NotReturned
    /\ UNCHANGED began_after_stop

\* _run_monitoring_cycle of coroutine k, from the return of scrape_all_services with
\* rs to the next await or to its return
ScheduledScrapeReturned(k, rs) ==
    LET scraped == [IncrementScrapes(metrics, Len(rs) > 0)
                        EXCEPT !.services_monitored = Len(rs)]
        counted == [scraped EXCEPT !.current_outages = Outages(rs)]
    IN  /\ phase[k] = "scrape"
        /\ IF rs = <<>>
           THEN /\ metrics' = scraped
                /\ phase' = [phase EXCEPT ![k] = "off"]
                /\ UNCHANGED <<detectorVars, local_changes, stages>>
           ELSE /\ DetectCore(rs)
                /\ IF DetectRaises(previous_state, rs)
                   THEN /\ metrics' = IncrementScrapes(counted, FALSE)
                        /\ phase' = [phase EXCEPT ![k] = "off"]
                        /\ stages' = [stages EXCEPT ![k] = {"detect"}]
                        /\ UNCHANGED local_changes
                   ELSE /\ metrics' = counted
                        /\ local_changes' = [local_changes EXCEPT ![k] = changes']
                        /\ phase' = [phase EXCEPT ![k] =
                                        IF changes' = <<>> THEN "off"
                                        ELSE IF ai_enabled THEN "enrich" ELSE "email"]
                        /\ stages' = [stages EXCEPT ![k] =
                                         IF changes' = <<>> THEN {"detect"}
                                         ELSE IF ai_enabled THEN {"detect", "enrich"}
                                         ELSE {"detect", "email"}]
        /\ detected_by' = IF rs = <<>> THEN detected_by ELSE k
        /\ UNCHANGED <<history, cycleLocals, ai_enabled, cycles, is_running,
                       manual_result, stop_returned, began_after_stop,
                       held, aliased, prev_notifier_failed, api_state,
                   startVars>>

\* generate_article returns to coroutine k; send_change_notification is called
ScheduledArticleReturned(k) ==
    /\ phase[k] = "enrich"
    /\ phase' = [phase EXCEPT ![k] = "email"]
    /\ stages' = [stages EXCEPT ![k] = @ \cup {"email"}]
    /\ UNCHANGED <<detectorVars, history, cycleLocals, traceVars, startVars, metrics, ai_enabled, cycles,
                   is_running, local_changes, manual_result, stop_returned,
                   began_after_stop>>

\* send_change_notification returns to coroutine k; increment_notifications;
\* broadcast_changes is called
ScheduledEmailReturned(k) ==
    /\ phase[k] = "email"
    /\ metrics' = [metrics EXCEPT !.total_notifications_sent = @ + Len(local_changes[k])]
    /\ phase' = [phase EXCEPT ![k] = "ws"]
    /\ stages' = [stages EXCEPT ![k] = @ \cup {"ws"}]
    /\ UNCHANGED <<detectorVars, history, cycleLocals, traceVars, startVars, ai_enabled, cycles,
                   is_running, local_changes, manual_result, stop_returned,
                   began_after_stop>>

\* broadcast_changes returns to coroutine k, or raises into its except Exception
ScheduledBroadcastEnded(k) ==
    /\ phase[k] = "ws"
    /\ phase' = [phase EXCEPT ![k] = "off"]
    /\ \E raised \in BOOLEAN :
           metrics' = IF raised THEN IncrementScrapes(metrics, FALSE) ELSE metrics
    /\ UNCHANGED <<detectorVars, history, cycleLocals, traceVars, startVars, ai_enabled, cycles,
                   is_running, local_changes, stages, manual_result, stop_returned,
                   began_after_stop>>

\* run_manual_cycle going on to the notifiers as a scheduled cycle does
ManualScrapeReturned_Notifies(rs) ==
    /\ phase["manual"] = "scrape"
    /\ DetectCore(rs)
    /\ IF DetectRaises(previous_state, rs)
       THEN /\ manual_result' = [returned |-> TRUE, success |-> FALSE, error |-> "error"]
            /\ phase' = [phase EXCEPT !["manual"] = "off"]
            /\ stages' = [stages EXCEPT !["manual"] = {"detect"}]
            /\ UNCHANGED local_changes
       ELSE /\ manual_result' = [returned      |-> TRUE,
                                 success       |-> TRUE,
                                 reports_count |-> Len(rs),
                                 changes_count |-> Len(changes'),
                                 changes       |-> changes']
            /\ phase' = [phase EXCEPT !["manual"] =
                            IF changes' = <<>> THEN "off" ELSE "email"]
            /\ stages' = [stages EXCEPT !["manual"] =
                             IF changes' = <<>> THEN {"detect"} ELSE {"detect", "email"}]
            /\ local_changes' = [local_changes EXCEPT !["manual"] = changes']
    /\ detected_by' = "manual"
    /\ UNCHANGED <<history, cycleLocals, metrics, ai_enabled, cycles, is_running,
                   stop_returned, began_after_stop, held, aliased, prev_notifier_failed, api_state,
                   startVars>>

\* run_manual_cycle comparing without committing: the state update left out
ManualScrapeReturned_NoCommit(rs) ==
    /\ phase["manual"] = "scrape"
    /\ changes' = DetectedChanges(previous_state, rs)
    /\ previous_state' = previous_state
    /\ prior_state' = previous_state
    /\ current_reports' = rs
    /\ last_op' = "detect_changes"
    /\ manual_result' = [returned      |-> TRUE,
                         success       |-> TRUE,
                         reports_count |-> Len(rs),
                         changes_count |-> Len(changes'),
                         changes       |-> changes']
    /\ local_changes' = [local_changes EXCEPT !["manual"] = changes']
    /\ phase' = [phase EXCEPT !["manual"] = "off"]
    /\ stages' = [stages EXCEPT !["manual"] = {"detect"}]
    /\ detected_by' = "manual"
    /\ UNCHANGED <<history, cycleLocals, metrics, ai_enabled, cycles, is_running,
                   stop_returned, began_after_stop, held, aliased, prev_notifier_failed, api_state,
                   startVars>>

\* run_manual_cycle from the return of scrape_all_services with rs to its return:
\* detect_changes, then the dict of the try branch or of the except branch
ManualScrapeReturned(rs) ==
    /\ phase["manual"] = "scrape"
    /\ DetectCore(rs)
    /\ IF DetectRaises(previous_state, rs)
       THEN /\ manual_result' = [returned |-> TRUE, success |-> FALSE, error |-> "error"]
            /\ UNCHANGED local_changes
       ELSE /\ manual_result' = [returned      |-> TRUE,
                                 success       |-> TRUE,
                                 reports_count |-> Len(rs),
                                 changes_count |-> Len(changes'),
                                 changes       |-> changes']
            /\ local_changes' = [local_changes EXCEPT !["manual"] = changes']
    /\ phase' = [phase EXCEPT !["manual"] = "off"]
    /\ stages' = [stages EXCEPT !["manual"] = {"detect"}]
    /\ detected_by' = "manual"
    /\ UNCHANGED <<history, cycleLocals, metrics, ai_enabled, cycles, is_running,
                   stop_returned, began_after_stop, held, aliased, prev_notifier_failed, api_state,
                   startVars>>

ScheduledStep ==
    \E k \in Scheduled :
        \/ \E rs \in ReturnedBatches : ScheduledScrapeReturned(k, rs)
        \/ ScheduledArticleReturned(k)
        \/ ScheduledEmailReturned(k)
        \/ ScheduledBroadcastEnded(k)

ManualStep == \E rs \in ReturnedBatches : ManualScrapeReturned(rs)

\* main.py, update_state between two sleeps: set_current_state(get_current_state()).
\* It runs on the event loop the cycles run on, so between two of their awaits;
\* detect_changes has no await.
UpdateState ==
    /\ api_state' = previous_state
    /\ UNCHANGED <<detectorVars, history, held, aliased, detected_by, prev_notifier_failed>>
    /\ UNCHANGED cycleVars
    /\ UNCHANGED schedVars

NextScheduler ==
    \/ Start
    \/ StartOnRunning
    \/ Stop
    \/ TaskBegins
    \/ IntervalTick
    \/ ManualCalled
    \/ ScheduledStep
    \/ ManualStep
    \/ UpdateState

SpecScheduler == InitCycle /\ [][NextScheduler]_vars

-----------------------------------------------------------------------------
(* What a caller sees of one detect_changes call *)

Detected == last_op = "detect_changes"

\* the service names of the reports passed to the call
BatchNames == {current_reports[i].service_name : i \in 1..Len(current_reports)}

\* the snapshot of a service in the batch passed to the call (the last, if several)
Snapshot(name) ==
    current_reports[CHOOSE i \in 1..Len(current_reports) :
        /\ current_reports[i].service_name = name
        /\ \A j \in (i + 1)..Len(current_reports) : current_reports[j].service_name # name]

\* the names with an entry in the state the call started from
PriorNames == {prior_state[i].service_name : i \in 1..Len(prior_state)}

PriorEntry(name) ==
    prior_state[CHOOSE i \in 1..Len(prior_state) : prior_state[i].service_name = name]

\* the returned events of one service, in the order returned
EventsOf(name) == SelectSeq(changes, LAMBDA e : e.service_name = name)

EventsOfKind(name, kinds) ==
    SelectSeq(changes, LAMBDA e : e.service_name = name /\ e.change_type \in kinds)

-----------------------------------------------------------------------------
(* Claims about single detect_changes calls, under Spec *)

\* C1: a detect_changes call that directly follows a detect_changes call with a
\* batch of the same content returns no change event.
C1_Idempotence ==
    [][(last_op = "detect_changes" /\ last_op' = "detect_changes"
            /\ current_reports' = current_reports)
        => changes' = <<>>]_vars

\* a call that found the state its own batch had committed, with an outage in it
C1_Witness ==
    /\ Detected
    /\ prior_state = previous_state
    /\ \E i \in 1..Len(current_reports) :
           current_reports[i].status = DOWN /\ current_reports[i].report_count = 1000
    /\ changes = <<>>

\* C3: a service in the prior state and absent from the batch gets exactly one
\* OUTAGE_RESOLVED event (old_* of the prior snapshot, new_status UP,
\* new_report_count 0, new_severity LOW) when its prior status was not UP, and no
\* event when it was UP.
C3_ResolutionOnDisappearance ==
    Detected =>
        \A name \in PriorNames \ BatchNames :
            LET old == PriorEntry(name)
            IN  EventsOf(name) =
                    IF old.status # UP
                    THEN <<[change_type      |-> OUTAGE_RESOLVED,
                            service_name     |-> name,
                            old_status       |-> old.status,
                            new_status       |-> UP,
                            old_report_count |-> old.report_count,
                            new_report_count |-> 0,
                            old_severity     |-> old.severity,
                            new_severity     |-> LOW]>>
                    ELSE <<>>

\* an outage of Google disappears while Facebook is still reported
C3_Witness ==
    /\ Detected
    /\ "Google" \in PriorNames \ BatchNames
    /\ "Facebook" \in BatchNames
    /\ PriorEntry("Google").status = ISSUES
    /\ PriorEntry("Google").report_count = 1000
    /\ \E i \in 1..Len(changes) :
           /\ changes[i].service_name = "Google"
           /\ changes[i].change_type = OUTAGE_RESOLVED
           /\ changes[i].new_report_count = 0

\* C4: a service with no prior entry whose snapshot is DOWN or ISSUES gets exactly
\* one event, a NEW_OUTAGE with old_status and old_severity absent,
\* old_report_count 0 and new_* of the snapshot, whatever its count and severity.
C4_NewOutage ==
    Detected =>
        \A name \in BatchNames \ PriorNames :
            LET new == Snapshot(name)
            IN  new.status \in {DOWN, ISSUES} =>
                    EventsOf(name) =
                        <<[change_type      |-> NEW_OUTAGE,
                           service_name     |-> name,
                           old_status       |-> None,
                           new_status       |-> new.status,
                           old_report_count |-> 0,
                           new_report_count |-> new.report_count,
                           old_severity     |-> None,
                           new_severity     |-> new.severity]>>

\* Google first seen DOWN, CRITICAL, with a count at the spike threshold
C4_Witness ==
    /\ Detected
    /\ "Google" \in BatchNames \ PriorNames
    /\ Snapshot("Google") = OutageReport("Google", DOWN, 1000, CRITICAL)
    /\ Len(EventsOf("Google")) = 1
    /\ EventsOf("Google")[1].change_type = NEW_OUTAGE

\* C5: a service with no prior entry whose snapshot is UP gets no event, whatever
\* its count and severity.
C5_HealthyFirstSeen ==
    Detected =>
        \A name \in BatchNames \ PriorNames :
            Snapshot(name).status = UP => EventsOf(name) = <<>>

\* Google first seen UP with a count at the threshold, beside a new Facebook outage
C5_Witness ==
    /\ Detected
    /\ "Google" \in BatchNames \ PriorNames
    /\ Snapshot("Google") = OutageReport("Google", UP, 1000, CRITICAL)
    /\ EventsOf("Google") = <<>>
    /\ changes # <<>>

-----------------------------------------------------------------------------
(* One service watched over successive detect_changes calls *)

MaxCalls == 6

\* the report of tests/test_detector.py's severity test: in outage, 500 reports
SeverityReports ==
    {OutageReport("Test", s, 500, v) : s \in {ISSUES, DOWN}, v \in SeverityEnum}

\* the kinds of the severity events in a returned list, in the order returned
SeverityKinds(evts) ==
    LET sev == SelectSeq(evts, LAMBDA e :
                   e.change_type \in {SEVERITY_INCREASED, SEVERITY_DECREASED})
    IN  [i \in 1..Len(sev) |-> sev[i].change_type]

\* detect_changes([report]), with what the caller passed and got back written down
ObservedDetectChanges(report) ==
    /\ Len(history) < MaxCalls
    /\ DetectCore(<<report>>)
    /\ history' = Append(history,
                      [severity        |-> report.severity,
                       severity_events |-> SeverityKinds(changes')])
    /\ UNCHANGED cycleVars
    /\ UNCHANGED schedVars
    /\ UNCHANGED traceVars

NextSeverity == \E report \in SeverityReports : ObservedDetectChanges(report)

SpecSeverity == Init /\ [][NextSeverity]_vars

\* LOW < MEDIUM < HIGH < CRITICAL
SeverityRank(v) == CASE v = LOW -> 1 [] v = MEDIUM -> 2 [] v = HIGH -> 3 [] v = CRITICAL -> 4

SeverityEventsFor(old, new) ==
    IF SeverityRank(new) > SeverityRank(old) THEN <<SEVERITY_INCREASED>>
    ELSE IF SeverityRank(new) < SeverityRank(old) THEN <<SEVERITY_DECREASED>>
    ELSE <<>>

HistorySeverities(n) == [i \in 1..n |-> history[i].severity]

HistoryEvents(n) == [i \in 1..n |-> history[i].severity_events]

-----------------------------------------------------------------------------
(* Three services in one batch *)

\* the services of tests/conftest.py's multiple_reports
MultiServices == <<"Google", "Facebook", "Twitter">>

\* the three reports of multiple_reports, for each service
MultiReportsOf(name) ==
    {OutageReport(name, UP, 50, LOW), OutageReport(name, ISSUES, 5000, HIGH),
     OutageReport(name, DOWN, 15000, CRITICAL)}

\* no report of the service, or one
OptionalReportOf(name) == {<<>>} \cup {<<r>> : r \in MultiReportsOf(name)}

MultiBatches ==
    {g \o f \o t : g \in OptionalReportOf(MultiServices[1]),
                   f \in OptionalReportOf(MultiServices[2]),
                   t \in OptionalReportOf(MultiServices[3])}

DetectMulti == \E batch \in MultiBatches : DetectChanges(batch)

NextMulti == DetectMulti \/ ResetState

SpecMulti == Init /\ [][NextMulti]_vars

\* the entries of one service in a list of reports
OnlyOf(batch, name) == SelectSeq(batch, LAMBDA r : r.service_name = name)

\* C9: the events a call returns for a service are those the call would return
\* with only that service in the state and in the batch; from an empty state a
\* batch of one DOWN, one ISSUES and one UP service returns exactly two
\* NEW_OUTAGE events, one per service in outage, and none for the UP service.
C9_MultiServiceIndependence ==
    Detected =>
        /\ \A name \in BatchNames \cup PriorNames :
               EventsOf(name) =
                   DetectedChanges(OnlyOf(prior_state, name), OnlyOf(current_reports, name))
        /\ (/\ prior_state = <<>>
            /\ Len(current_reports) = 3
            /\ Cardinality(BatchNames) = 3
            /\ {current_reports[i].status : i \in 1..3} = StatusEnum)
           => /\ Len(changes) = 2
              /\ \A i \in 1..2 : changes[i].change_type = NEW_OUTAGE
              /\ \A name \in BatchNames :
                     Len(EventsOf(name)) = (IF Snapshot(name).status = UP THEN 0 ELSE 1)

\* the batch of multiple_reports on a fresh detector
C9_Witness ==
    /\ Detected
    /\ prior_state = <<>>
    /\ current_reports = <<OutageReport("Google", DOWN, 15000, CRITICAL),
                           OutageReport("Facebook", ISSUES, 5000, HIGH),
                           OutageReport("Twitter", UP, 50, LOW)>>
    /\ Len(changes) = 2
    /\ changes[1].service_name = "Google" /\ changes[1].change_type = NEW_OUTAGE
    /\ changes[2].service_name = "Facebook" /\ changes[2].change_type = NEW_OUTAGE

-----------------------------------------------------------------------------
(* Claims about the monitoring cycle, under SpecCycle *)

\* a cycle has run and returned
CycleOver == pc = "idle" /\ cycles > 0

\* the service names of the reports scraped in this cycle
ScrapedNames == {reports[i].service_name : i \in 1..Len(reports)}

\* the positions of services_list the fetch loop has left without a report
DroppedPositions ==
    {i \in 1..Len(services_list) :
        i < service_idx /\ Title(services_list[i]) \notin ScrapedNames}

\* C2: in a cycle where the fetch of some services fails after exhausting the
\* retries and succeeds for at least one other, detection runs on the successful
\* snapshots and every failed service that had a state entry before the cycle has
\* the same entry after it.
C2_CycleIsolation ==
    (CycleOver /\ reports # <<>>) =>
        \A i \in DroppedPositions :
            attempts_made[i] = retry_attempts =>
                /\ "detect" \in invoked
                /\ current_reports = reports
                /\ LET name == Title(services_list[i])
                   IN  name \in DictKeys(cycle_start_state) =>
                           /\ name \in DictKeys(previous_state)
                           /\ DictGet(previous_state, name) = DictGet(cycle_start_state, name)

\* C10: a service is dropped from the batch only after retry_attempts failed
\* attempts: every failed attempt before that is followed by another one.
C10_FetchRetry ==
    \A i \in DroppedPositions : attempts_made[i] = retry_attempts

\* the fetch stage of the cycle is over
FetchOver == cycles > 0 /\ pc \notin {"fetch", "sleep"}

\* the positions of services_list whose scrape_service call returned a report
SucceededPositions ==
    SelectSeq([i \in 1..Len(services_list) |-> i], LAMBDA i : fetch_result[i] = "report")

\* C11: a service whose attempts all raised does not end the fetch stage: every
\* configured service has been tried when the stage is over, and the batch holds
\* exactly the snapshots of the services whose fetch returned one, in configured order.
C11_FetchIsolation ==
    FetchOver =>
        /\ \A i \in 1..Len(services_list) : fetch_result[i] # "pending"
        /\ Len(reports) = Len(SucceededPositions)
        /\ \A k \in 1..Len(reports) :
               reports[k].service_name = Title(services_list[SucceededPositions[k]])

C11_Witness ==
    /\ FetchOver
    /\ fetch_result[1] = "raised"
    /\ attempts_made[1] = retry_attempts
    /\ fetch_result[2] = "report"
    /\ Len(reports) = 1
    /\ reports[1].service_name = "Facebook"

\* C12: a scheduled cycle whose fetch stage returns an empty batch ends there: no
\* detector call, no generator or notifier call, previous_state unchanged, and one
\* failed scrape counted.
C12_EmptyBatchShortCircuit ==
    [][(pc = "fetch" /\ pc' = "idle" /\ reports' = <<>>) =>
           /\ invoked' = {}
           /\ last_op' = last_op
           /\ previous_state' = previous_state
           /\ outcome' = "no reports"
           /\ metrics'.total_scrapes = metrics.total_scrapes + 1
           /\ metrics'.failed_scrapes = metrics.failed_scrapes + 1
           /\ metrics'.successful_scrapes = metrics.successful_scrapes]_vars

C12_Witness ==
    /\ CycleOver
    /\ reports = <<>>
    /\ outcome = "no reports"
    /\ previous_state # <<>>
    /\ previous_state = cycle_start_state
    /\ metrics.failed_scrapes = 1
    /\ invoked = {}

\* C15: in a scheduled cycle with change events the notify stage runs whatever the
\* generator did; when the generator is disabled, returned nothing or failed, the
\* email notifier is called with the events and no article.
C15_EnrichmentNeverBlocks ==
    /\ (CycleOver /\ "detect" \in invoked /\ last_op = "detect_changes" /\ changes # <<>>)
           => {"email", "ws"} \subseteq invoked
    /\ (pc = "email" /\ (~ai_enabled \/ "enrich" \in failed)) =>
           /\ article = None
           /\ changes # <<>>

C15_Witness ==
    /\ CycleOver
    /\ ai_enabled
    /\ "enrich" \in failed
    /\ article = None
    /\ {"email", "ws"} \subseteq invoked
    /\ changes # <<>>

\* C17: when detect_changes is called every configured service has left its attempt
\* loop, and when the generator or a notifier is called detect_changes has returned
\* and previous_state is the keyed batch.
C17_StageOrdering ==
    /\ "detect" \in invoked =>
           /\ service_idx = Len(services_list) + 1
           /\ \A i \in 1..Len(services_list) : fetch_result[i] # "pending"
           /\ current_reports = reports
    /\ invoked \cap {"enrich", "email", "ws"} # {} =>
           /\ "detect" \in invoked
           /\ last_op = "detect_changes"
           /\ DictKeys(previous_state) = ScrapedNames
           /\ \A i \in 1..Len(reports) :
                  DictGet(previous_state, reports[i].service_name) = reports[i]

C17_Witness ==
    /\ pc = "ws"
    /\ attempts_made[1] = retry_attempts
    /\ fetch_result = <<"none", "report">>
    /\ Len(previous_state) = 1

\* C14: a notifier that fails in the notify stage of a scheduled cycle neither keeps
\* the other notifier from being called nor ends the cycle through its error handler.
C14_NotifierIsolation ==
    (CycleOver /\ failed \cap {"email", "ws"} # {}) =>
        /\ {"email", "ws"} \subseteq invoked
        /\ outcome = "completed"

-----------------------------------------------------------------------------
(* The commit of detect_changes, under Spec *)

\* the call dropped the entry of a service that was in the state and not in the batch
Disappeared(name) == Detected /\ name \in PriorNames \ BatchNames

\* C20: after a detect_changes call that returned, previous_state maps exactly the
\* service names of the batch to their snapshots; a service dropped by one call and
\* back non-UP in the next call's batch gets NEW_OUTAGE with no old values and
\* nothing else.
C20_CommitEqualsCurrentView ==
    /\ [](Detected =>
            /\ DictKeys(previous_state) = BatchNames
            /\ Len(previous_state) = Cardinality(BatchNames)
            /\ \A name \in BatchNames : DictGet(previous_state, name) = Snapshot(name))
    /\ [][\A name \in Services :
            (Disappeared(name) /\ Detected' /\ name \in BatchNames'
                /\ Snapshot(name)'.status # UP)
            => EventsOf(name)' =
                   <<CreateChangeEvent(NEW_OUTAGE, name, NoReport, Snapshot(name)')>>]_vars

C20_Witness ==
    /\ Disappeared("Facebook")
    /\ PriorEntry("Facebook").status = DOWN
    /\ BatchNames = {"Google"}
    /\ DictKeys(previous_state) = {"Google"}

-----------------------------------------------------------------------------
(* Claims about the scheduler, under SpecScheduler *)

\* the coroutines between the start of their fetch and the end of their cycle
InFlight == {k \in Kinds : phase[k] \notin {"off", "created"}}

\* C13: a detect_changes call that raised left previous_state as it found it; the
\* scheduled cycle it was called from ends there, without generator or notifier call
\* and without notification count, so the next cycle compares against that state.
C13_DetectionFailureAtomicity ==
    /\ [](last_op = "detect_changes raised" => previous_state = prior_state)
    /\ [][\A k \in Scheduled :
            (phase[k] = "scrape" /\ phase'[k] # "scrape"
                /\ last_op' = "detect_changes raised" /\ current_reports' # current_reports)
            => /\ previous_state' = previous_state
               /\ phase'[k] = "off"
               /\ stages'[k] = {"detect"}
               /\ metrics'.total_notifications_sent = metrics.total_notifications_sent
               /\ metrics'.failed_scrapes = metrics.failed_scrapes + 1]_vars

C13_Witness ==
    /\ last_op = "detect_changes raised"
    /\ Len(current_reports) = 2
    /\ previous_state = <<OutageReport("Google", UP, 0, LOW)>>
    /\ current_reports[1] = OutageReport("Google", DOWN, 5001, HIGH)
    /\ stages["job"] = {"detect"}
    /\ phase["job"] = "off"

\* C16: at most one monitoring cycle is in flight at any time.
C16_NoOverlap == Cardinality(InFlight) <= 1

\* C18: no scheduled cycle begins once stop() has returned.
C18_StopPreventsNewCycles == ~began_after_stop

\* C19: run_manual_cycle calls neither the generator nor a notifier and leaves the
\* notification count alone; it returns success with the sizes of the fetched batch
\* and of the returned change list, or failure with an error when detect_changes raised.
C19_ManualCycle ==
    /\ [](/\ phase["manual"] \in {"off", "scrape"}
          /\ stages["manual"] \subseteq {"detect"})
    /\ [][(phase["manual"] = "scrape" /\ phase'["manual"] # "scrape") =>
            /\ manual_result'.returned
            /\ metrics' = metrics
            /\ IF last_op' = "detect_changes"
               THEN /\ manual_result'.success
                    /\ manual_result'.reports_count = Len(current_reports')
                    /\ manual_result'.changes_count = Len(changes')
                    /\ manual_result'.changes = changes'
               ELSE /\ ~manual_result'.success
                    /\ manual_result'.error = "error"
                    /\ previous_state' = previous_state]_vars

C19_Witness ==
    /\ manual_result.returned
    /\ manual_result.success
    /\ manual_result.reports_count = 1
    /\ manual_result.changes_count = 1
    /\ manual_result.changes[1].change_type = OUTAGE_RESOLVED
    /\ stages["manual"] = {"detect"}
    /\ phase["manual"] = "off"

-----------------------------------------------------------------------------
(* More claims about single detect_changes calls, under Spec *)

\* C21: for a service in the prior state and in the batch, no severity event is
\* returned when the new status is UP; otherwise exactly SEVERITY_INCREASED when the
\* new severity ranks above the old one, exactly SEVERITY_DECREASED when it ranks
\* below, none when they are equal; and no severity event carries new_status UP.
C21_SeverityGating ==
    Detected =>
        /\ \A name \in BatchNames \cap PriorNames :
               LET old == PriorEntry(name)
                   new == Snapshot(name)
                   ev  == EventsOfKind(name, {SEVERITY_INCREASED, SEVERITY_DECREASED})
               IN  IF new.status = UP
                   THEN ev = <<>>
                   ELSE /\ Len(ev) = Len(SeverityEventsFor(old.severity, new.severity))
                        /\ \A i \in 1..Len(ev) :
                               /\ ev[i].change_type =
                                      SeverityEventsFor(old.severity, new.severity)[i]
                               /\ ev[i].old_severity = old.severity
                               /\ ev[i].new_severity = new.severity
        /\ \A i \in 1..Len(changes) :
               changes[i].change_type \in {SEVERITY_INCREASED, SEVERITY_DECREASED}
                   => changes[i].new_status # UP

\* Google resolves while its severity falls from CRITICAL to LOW: no severity event
C21_Witness ==
    /\ Detected
    /\ "Google" \in BatchNames \cap PriorNames
    /\ PriorEntry("Google").status = DOWN
    /\ PriorEntry("Google").severity = CRITICAL
    /\ Snapshot("Google").status = UP
    /\ Snapshot("Google").severity = LOW
    /\ EventsOfKind("Google", {SEVERITY_INCREASED, SEVERITY_DECREASED}) = <<>>
    /\ EventsOfKind("Google", {OUTAGE_RESOLVED}) # <<>>

\* C22: a service with no entry in the prior state whose report_count is at least
\* the threshold gets a REPORT_COUNT_SPIKE event in that call.
C22_SpikeOnFirstSight ==
    Detected =>
        \A name \in BatchNames \ PriorNames :
            Snapshot(name).report_count >= report_count_threshold
                => EventsOfKind(name, {REPORT_COUNT_SPIKE}) # <<>>

\* the non-UP snapshots of the batch, in batch order
OutagesOf(batch) == SelectSeq(batch, LAMBDA r : r.status # UP)

\* C24: reset_state leaves previous_state empty whatever it held, and the
\* detect_changes call that follows returns exactly one NEW_OUTAGE without old
\* values per non-UP snapshot of its batch, as a new detector does.
C24_Reset ==
    /\ [](last_op = "reset_state" => previous_state = <<>>)
    /\ [][(last_op = "reset_state" /\ Detected') =>
            /\ Len(changes') = Len(OutagesOf(current_reports'))
            /\ \A i \in 1..Len(changes') :
                   changes'[i] = CreateChangeEvent(NEW_OUTAGE,
                                     OutagesOf(current_reports')[i].service_name,
                                     NoReport, OutagesOf(current_reports')[i])]_vars

C24_Witness ==
    /\ last_op = "reset_state"
    /\ Len(prior_state) = 2
    /\ prior_state[1].status = DOWN
    /\ prior_state[2].status = UP
    /\ previous_state = <<>>

-----------------------------------------------------------------------------
(* _calculate_severity called on its own, as tests/test_scraper.py calls it *)

MaxSamples == 2

\* the counts of test_severity_calculation and test_severity_boundaries, and the
\* ends of the range
SampleCounts ==
    {0, 1, 500, 999, 1000, 1001, 1500, 4999, 5000, 5001, 6000, 9999, 10000, 10001, 15000}

\* scraper._calculate_severity(n)
CalculateSeverityCalled(n) ==
    /\ Len(history) < MaxSamples
    /\ history' = Append(history, [report_count |-> n, severity |-> CalculateSeverity(n)])
    /\ UNCHANGED detectorVars
    /\ UNCHANGED cycleVars
    /\ UNCHANGED schedVars
    /\ UNCHANGED traceVars

NextCalculate == \E n \in SampleCounts : CalculateSeverityCalled(n)

SpecCalculate == Init /\ [][NextCalculate]_vars

\* C25: _calculate_severity(n) is CRITICAL exactly above 10000, HIGH exactly in
\* 5001..10000, MEDIUM exactly in 1001..5000 and LOW exactly up to 1000, and of two
\* counts the larger never gets the lower severity.
C25_SeverityFromCount ==
    /\ \A i \in 1..Len(history) :
           LET n == history[i].report_count
               v == history[i].severity
           IN  /\ v = CRITICAL <=> n > 10000
               /\ v = HIGH <=> (5000 < n /\ n <= 10000)
               /\ v = MEDIUM <=> (1000 < n /\ n <= 5000)
               /\ v = LOW <=> n <= 1000
    /\ \A i, j \in 1..Len(history) :
           history[i].report_count <= history[j].report_count
               => SeverityRank(history[i].severity) <= SeverityRank(history[j].severity)

C25_Witness ==
    /\ Len(history) = 2
    /\ history[1] = [report_count |-> 1000, severity |-> LOW]
    /\ history[2] = [report_count |-> 10000, severity |-> HIGH]

-----------------------------------------------------------------------------
(* More claims about the monitoring cycle, under SpecCycle *)

\* previous_state is the keyed view of the batch this cycle fetched
CommittedToBatch ==
    /\ DictKeys(previous_state) = ScrapedNames
    /\ Len(previous_state) = Len(reports)
    /\ \A i \in 1..Len(reports) :
           DictGet(previous_state, reports[i].service_name) = reports[i]

\* C23: a scheduled cycle whose detect_changes call returns no event ends there:
\* no generator or notifier call, total_notifications_sent as it was, and
\* previous_state committed to the fetched batch.
C23_ZeroChangesEndCycle ==
    /\ []((CycleOver /\ "detect" \in invoked /\ last_op = "detect_changes"
              /\ changes = <<>>)
            => /\ invoked = {"detect"}
               /\ outcome = "no changes"
               /\ CommittedToBatch)
    /\ [][(pc = "fetch" /\ last_op' = "detect_changes" /\ changes' = <<>>) =>
            /\ pc' = "idle"
            /\ metrics'.total_notifications_sent = metrics.total_notifications_sent]_vars

\* a first sight of two healthy services: a new state and nothing to report
C23_Witness ==
    /\ CycleOver
    /\ outcome = "no changes"
    /\ invoked = {"detect"}
    /\ cycle_start_state = <<>>
    /\ Len(previous_state) = 2
    /\ CommittedToBatch

\* C27: a service whose fetch failed in a cycle gets no OUTAGE_RESOLVED event from
\* that cycle's detect_changes call.
C27_NoFalseResolution ==
    (CycleOver /\ "detect" \in invoked) =>
        \A i \in 1..Len(services_list) :
            fetch_result[i] \in {"none", "raised"}
                => EventsOfKind(Title(services_list[i]), {OUTAGE_RESOLVED}) = <<>>

-----------------------------------------------------------------------------
(* A caller that keeps the report object it passed to detect_changes, as           *)
(* tests/test_detector.py does.  The dict built at line 38 and its copy() of line  *)
(* 83 hold references: previous_state's entry is the caller's object.              *)

\* the detect_changes calls one caller makes
MaxHeldCalls == 3

\* the reports the caller builds and the values it assigns
HeldReports == {OutageReport("Google", s, 100, v) : s \in {UP, DOWN}, v \in {LOW, HIGH}}

\* OutageReport(...): a new object
CallerConstructs(r) ==
    /\ held' = r
    /\ aliased' = FALSE
    /\ UNCHANGED <<detectorVars, history, detected_by, prev_notifier_failed, api_state>>
    /\ UNCHANGED cycleVars
    /\ UNCHANGED schedVars

\* sample_report.status = ...; sample_report.severity = ...: the object changes, and
\* with it whatever holds a reference to it
CallerMutates(status, severity) ==
    /\ held # NoReport
    /\ held' = [held EXCEPT !.status = status, !.severity = severity]
    /\ held' # held
    /\ previous_state' =
           [i \in 1..Len(previous_state) |->
               IF aliased /\ previous_state[i].service_name = held.service_name
               THEN held' ELSE previous_state[i]]
    /\ UNCHANGED <<prior_state, current_reports, changes, last_op, history, aliased,
                   detected_by, prev_notifier_failed, api_state>>
    /\ UNCHANGED cycleVars
    /\ UNCHANGED schedVars

\* the kinds of the returned status events
StatusKinds(evts) ==
    [i \in 1..Len(SelectSeq(evts, LAMBDA e : e.change_type \in
                                {STATUS_CHANGED, OUTAGE_RESOLVED, NEW_OUTAGE})) |->
        SelectSeq(evts, LAMBDA e : e.change_type \in
                      {STATUS_CHANGED, OUTAGE_RESOLVED, NEW_OUTAGE})[i].change_type]

\* detector.detect_changes([sample_report])
DetectHeld ==
    /\ held # NoReport
    /\ Len(history) < MaxHeldCalls
    /\ DetectCore(<<held>>)
    /\ aliased' = TRUE
    /\ history' = Append(history, [passed |-> held, status_events |-> StatusKinds(changes')])
    /\ UNCHANGED <<held, detected_by, prev_notifier_failed, api_state>>
    /\ UNCHANGED cycleVars
    /\ UNCHANGED schedVars

NextCaller ==
    \/ \E r \in HeldReports : CallerConstructs(r)
    \/ \E status \in {UP, DOWN}, severity \in {LOW, HIGH} : CallerMutates(status, severity)
    \/ DetectHeld

SpecCaller == Init /\ [][NextCaller]_vars

\* C26: a detect_changes call whose report differs in status from the report passed
\* to the call before it returns a status event, whether the caller passed a new
\* object or the same object with new values.
C26_BaselineIsolated ==
    \A i \in 2..Len(history) :
        history[i - 1].passed.status # history[i].passed.status
            => history[i].status_events # <<>>

-----------------------------------------------------------------------------
(* Claims about what becomes of change events, under SpecScheduler and SpecCycle *)

\* C28: a manual run whose fetch returned no report is an empty batch like the
\* scheduled cycle's: it does not reach detect_changes, returns no change and
\* leaves previous_state as it was.
C28_ManualEmptyBatchSkipsDetect ==
    (manual_result.returned /\ manual_result.success) =>
        (manual_result.reports_count = 0 =>
            /\ "detect" \notin stages["manual"]
            /\ manual_result.changes_count = 0)

\* C29: run_manual_cycle commits its batch to the detector the scheduled cycles use
\* and dispatches nothing; a scheduled cycle whose detect_changes call comes next
\* with the same batch gets no event, ends there and counts no notification.
C29_ManualConsumesChanges ==
    /\ []((detected_by = "manual" /\ last_op = "detect_changes") =>
            /\ DictKeys(previous_state) = BatchNames
            /\ \A name \in BatchNames : DictGet(previous_state, name) = Snapshot(name)
            /\ stages["manual"] \subseteq {"detect"})
    /\ [][\A k \in Scheduled :
            (detected_by = "manual" /\ last_op = "detect_changes"
                /\ phase[k] = "scrape" /\ detected_by' = k
                /\ current_reports' = current_reports)
            => /\ changes' = <<>>
               /\ phase'[k] = "off"
               /\ stages'[k] = {"detect"}
               /\ metrics'.total_notifications_sent = metrics.total_notifications_sent]_vars

\* the manual run returned NEW_OUTAGE for Google, the job fetched the same batch
\* after it, and no notification was ever counted
C29_Witness ==
    /\ manual_result.returned
    /\ manual_result.success
    /\ manual_result.changes_count = 1
    /\ manual_result.changes[1].change_type = NEW_OUTAGE
    /\ detected_by = "job"
    /\ last_op = "detect_changes"
    /\ current_reports = <<OutageReport("Google", DOWN, 5001, HIGH)>>
    /\ changes = <<>>
    /\ cycles = 2
    /\ metrics.total_notifications_sent = 0

\* the batch this cycle fetched is the one the state it started from was committed to
SameBatchAsBefore ==
    /\ DictKeys(cycle_start_state) = ScrapedNames
    /\ Len(cycle_start_state) = Len(reports)
    /\ \A i \in 1..Len(reports) :
           DictGet(cycle_start_state, reports[i].service_name) = reports[i]

\* C30: a notifier failure leaves previous_state at the batch the cycle committed,
\* and the cycle after it, fetching the same batch, gets no event from
\* detect_changes and calls no notifier.
C30_NoRedelivery ==
    /\ (failed \cap {"email", "ws"} # {}) =>
           /\ last_op = "detect_changes"
           /\ CommittedToBatch
    /\ (prev_notifier_failed /\ CycleOver /\ "detect" \in invoked /\ SameBatchAsBefore) =>
           /\ changes = <<>>
           /\ invoked = {"detect"}
           /\ outcome = "no changes"

C30_Witness ==
    /\ prev_notifier_failed
    /\ CycleOver
    /\ SameBatchAsBefore
    /\ Len(reports) = 2
    /\ reports[1].status = DOWN
    /\ invoked = {"detect"}
    /\ metrics.failed_scrapes = 1

-----------------------------------------------------------------------------
(* Outage episodes of a service over successive detect_changes calls *)

\* the detect_changes calls written down
MaxEpisodeCalls == 4

\* Google healthy, degraded, down or not fetched; Facebook down or not fetched
EpisodeBatches ==
    {g \o f : g \in {<<>>} \cup {<<OutageReport("Google", st, 0, LOW)>> : st \in StatusEnum},
              f \in {<<>>, <<OutageReport("Facebook", DOWN, 0, LOW)>>}}

\* the status events of a returned list: service and kind, in the order returned
EpisodeEvents(evts) ==
    LET ep == SelectSeq(evts, LAMBDA e :
                  e.change_type \in {NEW_OUTAGE, STATUS_CHANGED, OUTAGE_RESOLVED})
    IN  [i \in 1..Len(ep) |->
            [service_name |-> ep[i].service_name, change_type |-> ep[i].change_type]]

\* detect_changes(batch), with the status events it returned written down
EpisodeDetectChanges(batch) ==
    /\ Len(history) < MaxEpisodeCalls
    /\ DetectCore(batch)
    /\ history' = Append(history, [episode_events |-> EpisodeEvents(changes')])
    /\ UNCHANGED cycleVars
    /\ UNCHANGED schedVars
    /\ UNCHANGED traceVars

NextEpisodes ==
    \/ \E batch \in EpisodeBatches : EpisodeDetectChanges(batch)
    \/ ResetState

SpecEpisodes == Init /\ [][NextEpisodes]_vars

\* call i returned an event of one of the kinds for the service
Emitted(i, name, kinds) ==
    \E n \in 1..Len(history[i].episode_events) :
        /\ history[i].episode_events[n].service_name = name
        /\ history[i].episode_events[n].change_type \in kinds

\* C31: a call returns OUTAGE_RESOLVED for a service only when the state it started
\* from held a non-UP entry of it; the state comes to hold a non-UP entry, where it
\* held none or an UP one, only in a call that returns NEW_OUTAGE or STATUS_CHANGED
\* for the service; and between two calls that return OUTAGE_RESOLVED for a service
\* there is a call that returns NEW_OUTAGE or STATUS_CHANGED for it.
C31_EpisodesAlternate ==
    /\ Detected =>
           \A name \in BatchNames \cup PriorNames :
               EventsOfKind(name, {OUTAGE_RESOLVED}) # <<>>
                   => (name \in PriorNames /\ PriorEntry(name).status # UP)
    /\ \A name \in DictKeys(previous_state) :
           (/\ DictGet(previous_state, name).status # UP
            /\ (name \in PriorNames => PriorEntry(name).status = UP))
               => EventsOfKind(name, {NEW_OUTAGE, STATUS_CHANGED}) # <<>>
    /\ \A name \in Services :
           \A i \in 1..Len(history) : \A j \in (i + 1)..Len(history) :
               (Emitted(i, name, {OUTAGE_RESOLVED}) /\ Emitted(j, name, {OUTAGE_RESOLVED}))
                   => \E k \in (i + 1)..(j - 1) :
                          Emitted(k, name, {NEW_OUTAGE, STATUS_CHANGED})

\* two episodes of Google: an outage begins, is resolved, begins again from the
\* healthy entry and is resolved by the service's disappearance
C31_Witness ==
    /\ Len(history) = 4
    /\ Emitted(1, "Google", {NEW_OUTAGE})
    /\ Emitted(2, "Google", {OUTAGE_RESOLVED})
    /\ Emitted(3, "Google", {STATUS_CHANGED})
    /\ Emitted(4, "Google", {OUTAGE_RESOLVED})
    /\ current_reports = <<>>

-----------------------------------------------------------------------------
(* The order of the returned events: batches in every order of their services *)

\* a service healthy and quiet, or down with a thousand reports
OrderReportsOf(name) == {OutageReport(name, UP, 0, LOW), OutageReport(name, DOWN, 1000, HIGH)}

OrderServices == {"Google", "Facebook", "Twitter"}

\* lists of reports of distinct services, in any order
OrderBatches ==
    {<<>>}
        \cup {<<a>> : a \in UNION {OrderReportsOf(n) : n \in OrderServices}}
        \cup {b \in UNION {{<<x, y>> : x \in OrderReportsOf(n1), y \in OrderReportsOf(n2)} :
                              n1 \in OrderServices, n2 \in OrderServices} :
                  b[1].service_name # b[2].service_name}
        \cup {b \in UNION {{<<x, y, z>> : x \in OrderReportsOf(n1), y \in OrderReportsOf(n2),
                                          z \in OrderReportsOf(n3)} :
                              n1 \in OrderServices, n2 \in OrderServices, n3 \in OrderServices} :
                  Cardinality({b[1].service_name, b[2].service_name, b[3].service_name}) = 3}

DetectOrdered == \E batch \in OrderBatches : DetectChanges(batch)

NextOrder == DetectOrdered \/ ResetState

SpecOrder == Init /\ [][NextOrder]_vars

\* where the service first stands in a list of reports
PositionIn(list, name) ==
    CHOOSE i \in 1..Len(list) :
        /\ list[i].service_name = name
        /\ \A j \in 1..(i - 1) : list[j].service_name # name

\* status event, then severity event, then spike event
KindRank(change_type) ==
    IF change_type \in {NEW_OUTAGE, STATUS_CHANGED, OUTAGE_RESOLVED} THEN 1
    ELSE IF change_type \in {SEVERITY_INCREASED, SEVERITY_DECREASED} THEN 2
    ELSE 3

\* C32: in the returned list the events of services of the batch come first, service
\* by service in the batch's order and for one service as status event, severity
\* event, spike event; after them come the OUTAGE_RESOLVED events of the services
\* missing from the batch, in the order of the state the call started from.
C32_EventOrder ==
    Detected =>
        \A i \in 1..Len(changes) : \A j \in (i + 1)..Len(changes) :
            LET a == changes[i]
                b == changes[j]
            IN  /\ a.service_name \notin BatchNames =>
                       /\ b.service_name \notin BatchNames
                       /\ a.change_type = OUTAGE_RESOLVED
                       /\ b.change_type = OUTAGE_RESOLVED
                       /\ PositionIn(prior_state, a.service_name)
                              < PositionIn(prior_state, b.service_name)
                /\ (a.service_name \in BatchNames /\ b.service_name \in BatchNames) =>
                       /\ PositionIn(current_reports, a.service_name)
                              <= PositionIn(current_reports, b.service_name)
                       /\ a.service_name = b.service_name =>
                              KindRank(a.change_type) < KindRank(b.change_type)

\* Google goes down with all three events while Twitter and Facebook, down before
\* and entered in that order, are missing from the batch
C32_Witness ==
    /\ Detected
    /\ prior_state = <<OutageReport("Twitter", DOWN, 1000, HIGH),
                       OutageReport("Google", UP, 0, LOW),
                       OutageReport("Facebook", DOWN, 1000, HIGH)>>
    /\ current_reports = <<OutageReport("Google", DOWN, 1000, HIGH)>>
    /\ [i \in 1..Len(changes) |-> <<changes[i].service_name, changes[i].change_type>>]
           = << <<"Google", STATUS_CHANGED>>, <<"Google", SEVERITY_INCREASED>>,
                <<"Google", REPORT_COUNT_SPIKE>>, <<"Twitter", OUTAGE_RESOLVED>>,
                <<"Facebook", OUTAGE_RESOLVED>> >>

-----------------------------------------------------------------------------
(* Batches that hold several reports of one service *)

DupReports ==
    {OutageReport("Google", UP, 0, LOW), OutageReport("Google", ISSUES, 0, MEDIUM),
     OutageReport("Google", DOWN, 1000, HIGH), OutageReport("Facebook", DOWN, 1000, HIGH)}

\* every list of one to three of the reports, repeated names included
DupBatches ==
    {<<a>> : a \in DupReports}
        \cup {<<a, b>> : a \in DupReports, b \in DupReports}
        \cup {<<a, b, c>> : a \in DupReports, b \in DupReports, c \in DupReports}

DetectDup == \E batch \in DupBatches : DetectChanges(batch)

NextDup == DetectDup \/ ResetState

SpecDup == Init /\ [][NextDup]_vars

\* C33: a call whose batch holds several reports of one service does not raise; the
\* events it returns for a service are those of comparing the last report of the
\* service with the entry the call started from, and that last report is the one
\* committed.
C33_DuplicateIds ==
    /\ last_op # "detect_changes raised"
    /\ Detected =>
           /\ \A name \in BatchNames :
                  /\ EventsOf(name)
                         = DetectedChanges(OnlyOf(prior_state, name), <<Snapshot(name)>>)
                  /\ \A i \in 1..Len(EventsOf(name)) :
                         /\ EventsOf(name)[i].new_status = Snapshot(name).status
                         /\ EventsOf(name)[i].new_report_count = Snapshot(name).report_count
                         /\ EventsOf(name)[i].new_severity = Snapshot(name).severity
                  /\ DictGet(previous_state, name) = Snapshot(name)
           /\ DictKeys(previous_state) = BatchNames
           /\ Len(previous_state) = Cardinality(BatchNames)

\* Google stands twice in the batch, healthy first and down last, with Facebook
\* between: the call reports Google's way down and commits the last report
C33_Witness ==
    /\ Detected
    /\ prior_state = <<OutageReport("Google", UP, 0, LOW)>>
    /\ current_reports = <<OutageReport("Google", UP, 0, LOW),
                           OutageReport("Facebook", DOWN, 1000, HIGH),
                           OutageReport("Google", DOWN, 1000, HIGH)>>
    /\ Len(EventsOf("Google")) = 3
    /\ EventsOf("Google")[1].change_type = STATUS_CHANGED
    /\ previous_state = <<OutageReport("Google", DOWN, 1000, HIGH),
                          OutageReport("Facebook", DOWN, 1000, HIGH)>>

-----------------------------------------------------------------------------
(* Readers of the detector's state *)

\* C34: what update_state reads, at any point between the steps of the cycles, is
\* the whole mapping the last detect_changes call started from or the whole mapping
\* of the batch it was given, never entries of both.
C34_AtomicView ==
    [][api_state' # api_state =>
          /\ api_state' = previous_state
          /\ \/ api_state' = DictFromReports(current_reports)
             \/ api_state' = prior_state /\ last_op = "detect_changes raised"]_vars

\* the reader holds the mapping from before a commit made while another cycle is
\* between two of its awaits
C34_Witness ==
    /\ api_state = <<OutageReport("Google", UP, 0, LOW)>>
    /\ prior_state = api_state
    /\ previous_state = <<OutageReport("Google", DOWN, 5001, HIGH)>>
    /\ last_op = "detect_changes"
    /\ \E k \in Kinds : phase[k] \notin {"off", "created"}

-----------------------------------------------------------------------------
(* A caller that changes what get_current_state returned.  previous_state.copy()  *)
(* is a new dict holding the objects previous_state holds.                         *)

ReaderBatches ==
    {g \o f : g \in {<<>>, <<OutageReport("Google", UP, 0, LOW)>>,
                     <<OutageReport("Google", DOWN, 1000, HIGH)>>},
              f \in {<<>>, <<OutageReport("Facebook", DOWN, 1000, HIGH)>>}}

\* detect_changes(batch) with reports built for this call
DetectFresh(batch) ==
    /\ DetectCore(batch)
    /\ aliased' = FALSE
    /\ UNCHANGED <<history, held, detected_by, prev_notifier_failed, api_state>>
    /\ UNCHANGED cycleVars
    /\ UNCHANGED schedVars

\* state = get_current_state(), and the caller takes one of its values in hand
GetCurrentState ==
    /\ api_state' = previous_state
    /\ IF previous_state = <<>>
       THEN held' = NoReport /\ aliased' = FALSE
       ELSE /\ \E i \in 1..Len(previous_state) : held' = previous_state[i]
            /\ aliased' = TRUE
    /\ UNCHANGED <<detectorVars, history, detected_by, prev_notifier_failed>>
    /\ UNCHANGED cycleVars
    /\ UNCHANGED schedVars

\* the same object in another mapping
WithObject(mapping, obj) ==
    [i \in 1..Len(mapping) |->
        IF mapping[i].service_name = obj.service_name THEN obj ELSE mapping[i]]

\* state[name].status = status, on the value taken in hand
ReaderChangesSnapshot(status) ==
    /\ held # NoReport
    /\ held.service_name \in DictKeys(api_state)
    /\ held.status # status
    /\ held' = [held EXCEPT !.status = status]
    /\ api_state' = WithObject(api_state, held')
    /\ previous_state' = IF aliased THEN WithObject(previous_state, held')
                         ELSE previous_state
    /\ UNCHANGED <<prior_state, current_reports, changes, last_op, history, aliased,
                   detected_by, prev_notifier_failed>>
    /\ UNCHANGED cycleVars
    /\ UNCHANGED schedVars

\* del state[name]
ReaderRemovesEntry(name) ==
    /\ name \in DictKeys(api_state)
    /\ api_state' = SelectSeq(api_state, LAMBDA r : r.service_name # name)
    /\ UNCHANGED <<detectorVars, history, held, aliased, detected_by, prev_notifier_failed>>
    /\ UNCHANGED cycleVars
    /\ UNCHANGED schedVars

\* state["Twitter"] = a report of the caller's
ReaderAddsEntry ==
    /\ "Twitter" \notin DictKeys(api_state)
    /\ api_state' = Append(api_state, OutageReport("Twitter", UP, 0, LOW))
    /\ UNCHANGED <<detectorVars, history, held, aliased, detected_by, prev_notifier_failed>>
    /\ UNCHANGED cycleVars
    /\ UNCHANGED schedVars

NextReader ==
    \/ \E batch \in ReaderBatches : DetectFresh(batch)
    \/ GetCurrentState
    \/ \E status \in StatusEnum : ReaderChangesSnapshot(status)
    \/ \E name \in Services : ReaderRemovesEntry(name)
    \/ ReaderAddsEntry

SpecReader == Init /\ [][NextReader]_vars

\* C35: whatever a caller does to the mapping get_current_state returned, or to a
\* snapshot in it, previous_state stays the keyed batch of the last detect_changes
\* call; and a detect_changes call leaves a mapping returned earlier as it was.
C35_DefensiveCopy ==
    /\ [](Detected => previous_state = DictFromReports(current_reports))
    /\ [][prior_state' # prior_state \/ current_reports' # current_reports
             => api_state' = api_state]_vars

-----------------------------------------------------------------------------
(* The fields of the returned events, under Spec *)

\* C36: every returned event has a new_status and a new_severity; a NEW_OUTAGE event
\* has no old_status and no old_severity and old_report_count 0; an event of any
\* other kind has the status, severity and report count of the entry the call
\* started from.
C36_ChangeEventInvariant ==
    \A i \in 1..Len(changes) :
        LET e == changes[i]
        IN  /\ e.new_status \in StatusEnum
            /\ e.new_severity \in SeverityEnum
            /\ (e.old_status = None) = (e.change_type = NEW_OUTAGE)
            /\ (e.old_severity = None) = (e.change_type = NEW_OUTAGE)
            /\ e.change_type = NEW_OUTAGE =>
                   /\ e.old_report_count = 0
                   /\ e.service_name \notin PriorNames
            /\ e.change_type # NEW_OUTAGE =>
                   /\ e.service_name \in PriorNames
                   /\ e.old_status = PriorEntry(e.service_name).status
                   /\ e.old_severity = PriorEntry(e.service_name).severity
                   /\ e.old_report_count = PriorEntry(e.service_name).report_count

\* one call returns a STATUS_CHANGED event with its old side and a NEW_OUTAGE event
\* without
C36_Witness ==
    /\ Detected
    /\ Len(changes) >= 2
    /\ changes[1].change_type = STATUS_CHANGED
    /\ changes[1].old_status = UP
    /\ changes[1].old_report_count = 1
    /\ changes[Len(changes)].change_type = NEW_OUTAGE
    /\ changes[Len(changes)].old_status = None

-----------------------------------------------------------------------------
(* start(), under SpecScheduler *)

\* C37: a start() call on a scheduler that is not running leaves it running with the
\* one interval job registered and one task created for an immediate cycle; a
\* start() call on a running scheduler changes nothing: no job is added and no task
\* is created.
C37_StartIdempotence ==
    /\ [](/\ jobs \subseteq {"outage_monitor"}
          /\ is_running => jobs = {"outage_monitor"}
          /\ tasks_created <= start_calls)
    /\ [][start_calls' # start_calls =>
             IF is_running
             THEN UNCHANGED <<is_running, jobs, tasks_created, phase, cycles, stop_returned>>
             ELSE /\ is_running'
                  /\ jobs' = {"outage_monitor"}
                  /\ tasks_created' = tasks_created + 1
                  /\ phase'["task"] = "created"
                  /\ \A k \in Kinds \ {"task"} : phase'[k] = phase[k]]_vars

\* start() was called twice without a stop() between: one task was created, and
\* its cycle has run
C37_Witness ==
    /\ start_calls = 2
    /\ tasks_created = 1
    /\ is_running
    /\ ~stop_returned
    /\ jobs = {"outage_monitor"}
    /\ cycles = 1
    /\ stages["task"] # {}
    /\ phase["task"] = "off"

-----------------------------------------------------------------------------
(* The attempt budget of scrape_all_services, under SpecCycle *)

RECURSIVE SumTo(_, _)
\* f[1] + ... + f[n]
SumTo(f, n) == IF n = 0 THEN 0 ELSE f[n] + SumTo(f, n - 1)

\* C38: in one scrape_all_services call scrape_service is called at most
\* retry_attempts times per service and retry_attempts x |services| times in all;
\* a service whose attempt loop has ended is not tried again; the call sleeps only
\* after a failed attempt that is not the last of its service.
C38_FetchBudget ==
    /\ [](/\ \A i \in 1..Len(services_list) :
                 /\ attempts_made[i] <= retry_attempts
                 /\ fetch_result[i] = "report" => attempts_made[i] >= 1
                 /\ i > service_idx => attempts_made[i] = 0
          /\ SumTo(attempts_made, Len(services_list)) <= retry_attempts * Len(services_list)
          /\ pc = "sleep" =>
                 /\ fetch_result[service_idx] = "pending"
                 /\ attempts_made[service_idx] = attempt + 1
                 /\ attempts_made[service_idx] < retry_attempts)
    /\ [][/\ cycles' = cycles =>
                 \A i \in 1..Len(services_list) :
                     fetch_result[i] # "pending" =>
                         /\ attempts_made'[i] = attempts_made[i]
                         /\ fetch_result'[i] = fetch_result[i]
          /\ pc = "sleep" => (pc' = "fetch" /\ attempt' = attempt + 1)]_vars

\* google has used its three attempts and is given up; facebook is fetched at its
\* second attempt, after one sleep
C38_Witness ==
    /\ FetchOver
    /\ attempts_made = <<3, 2>>
    /\ fetch_result = <<"raised", "report">>
    /\ Len(reports) = 1

-----------------------------------------------------------------------------
(* The scrape counters, under SpecCycle *)

\* C39: every monitoring cycle adds exactly one to total_scrapes, as a successful or
\* as a failed scrape: while a cycle runs the total is at most the number of cycles
\* started, and when it is over the total is that number.
C39_OneScrapeMetricPerCycle ==
    /\ metrics.total_scrapes <= cycles
    /\ metrics.successful_scrapes + metrics.failed_scrapes = metrics.total_scrapes
    /\ CycleOver => metrics.total_scrapes = cycles

====
